---------------------------- MODULE Spec2Model ----------------------------
(***************************************************************************)
(* The four record validators of sddm (checkDkim, checkSpf, checkDmarc,    *)
(* checkMx) over the DNS-over-HTTPS resolver client.  A validator call is  *)
(* a small process: it issues a query, suspends at the await, and resumes  *)
(* with the resolver's response or with the rejection of the request.      *)
(* Record texts are TLA+ strings; the string helpers below do what the     *)
(* JavaScript string methods used by the source do, character by           *)
(* character.                                                              *)
(***************************************************************************)
EXTENDS Integers, Sequences, FiniteSets, TLC

(***************************************************************************)
(* Bounds of the model.                                                    *)
(***************************************************************************)
\* longest Answer list the resolver delivers
MaxAnswers == 2
\* number of leading selectors of a selector list whose names may hold
\* records; the names of the later selectors resolve to empty responses
ZoneSelectors == 3

(***************************************************************************)
(* JavaScript string methods.                                              *)
(***************************************************************************)
UpperLetters == "ABCDEFGHIJKLMNOPQRSTUVWXYZ"
LowerLetters == "abcdefghijklmnopqrstuvwxyz"
Digits == "0123456789"

charAt(s, i) == SubSeq(s, i, i)

\* String.prototype.substring(from) / substring(from, to), 0-based, to exclusive
substringFrom(s, from) == SubSeq(s, from + 1, Len(s))
substring(s, from, to) ==
    LET t == IF to > Len(s) THEN Len(s) ELSE to
    IN  SubSeq(s, from + 1, t)

indexIn(alphabet, c) ==
    IF \E i \in 1..Len(alphabet) : charAt(alphabet, i) = c
    THEN CHOOSE i \in 1..Len(alphabet) : charAt(alphabet, i) = c
    ELSE 0

DigitChars == {charAt(Digits, i) : i \in 1..Len(Digits)}
AlnumChars ==
    DigitChars \cup {charAt(UpperLetters, i) : i \in 1..26}
               \cup {charAt(LowerLetters, i) : i \in 1..26}

lowerOfUpper ==
    [c \in {charAt(UpperLetters, i) : i \in 1..26} |->
        charAt(LowerLetters, indexIn(UpperLetters, c))]

isDigit(c) == c \in DigitChars
isAlnum(c) == c \in AlnumChars

lowerChar(c) == IF c \in DOMAIN lowerOfUpper THEN lowerOfUpper[c] ELSE c

\* the recursions on strings halve the string, which keeps them shallow
RECURSIVE toLowerCase(_)
toLowerCase(s) ==
    IF Len(s) <= 1 THEN lowerChar(s)
    ELSE LET h == Len(s) \div 2
         IN  toLowerCase(SubSeq(s, 1, h)) \o toLowerCase(SubSeq(s, h + 1, Len(s)))

startsWith(s, prefix) ==
    Len(s) >= Len(prefix) /\ SubSeq(s, 1, Len(prefix)) = prefix

includes(s, sub) ==
    \E i \in 1..(Len(s) - Len(sub) + 1) : SubSeq(s, i, i + Len(sub) - 1) = sub

\* s.replace(/['"]/g, "")
RECURSIVE removeQuotes(_)
removeQuotes(s) ==
    IF Len(s) <= 1 THEN (IF s = "\"" \/ s = "'" THEN "" ELSE s)
    ELSE LET h == Len(s) \div 2
         IN  removeQuotes(SubSeq(s, 1, h)) \o removeQuotes(SubSeq(s, h + 1, Len(s)))

\* s.replace(/^"|"$/g, ""): one double quote at the start and one at the end
stripSurroundingQuotes(s) ==
    LET a == IF startsWith(s, "\"") THEN substringFrom(s, 1) ELSE s
    IN  IF Len(a) > 0 /\ charAt(a, Len(a)) = "\""
        THEN SubSeq(a, 1, Len(a) - 1)
        ELSE a

\* s.replace(/\.$/, "")
stripTrailingDot(s) ==
    IF Len(s) > 0 /\ charAt(s, Len(s)) = "." THEN SubSeq(s, 1, Len(s) - 1) ELSE s

\* String.prototype.trim (the texts of the model hold no whitespace but " ")
trimStart(s) ==
    LET inked == {i \in 1..Len(s) : charAt(s, i) # " "}
    IN  IF inked = {} THEN ""
        ELSE SubSeq(s, CHOOSE i \in inked : \A j \in inked : i <= j, Len(s))

trimEnd(s) ==
    LET inked == {i \in 1..Len(s) : charAt(s, i) # " "}
    IN  IF inked = {} THEN ""
        ELSE SubSeq(s, 1, CHOOSE i \in inked : \A j \in inked : i >= j)

trim(s) == trimEnd(trimStart(s))

\* s.split(sep) for a one-character separator: a sequence of strings
split(s, sep) ==
    LET at == {i \in 1..Len(s) : charAt(s, i) = sep}
        n == Cardinality(at)
        \* position of the k-th separator; 0 before the first, Len(s)+1 after the last
        pos(k) == IF k = 0 THEN 0
                  ELSE IF k > n THEN Len(s) + 1
                  ELSE CHOOSE i \in at : Cardinality({j \in at : j < i}) = k - 1
    IN  [k \in 1..(n + 1) |-> SubSeq(s, pos(k - 1) + 1, pos(k) - 1)]

Range(seq) == {seq[i] : i \in 1..Len(seq)}

(***************************************************************************)
(* JavaScript values.  A validation result's isValid is one of the strings *)
(* "true", "false", "null" (DkimValidationResult is boolean | null); an    *)
(* absent optional argument is Undefined.                                   *)
(***************************************************************************)
Undefined == "<undefined>"

\* no value returned (the call is pending or has thrown) / no error thrown
NoResult == [pending |-> TRUE]
NoError == ""

\* ToBoolean of a string-or-undefined value (the test of `provider ? .. : ..`)
Truthy(v) == v # Undefined /\ v # ""

(***************************************************************************)
(* The resolver's responses: response.data of googleDnsService.get.  Answer *)
(* is a list of answer records, each the string of its data field; a       *)
(* response without an Answer field (or with Answer: null) has             *)
(* hasAnswer = FALSE.                                                       *)
(***************************************************************************)
StatusCodes == {0, 3}

SeqsUpTo(S, n) == UNION {[1..k -> S] : k \in 0..n}

ResponsesWithin(texts, n) ==
    {[Status |-> st, hasAnswer |-> TRUE, Answer |-> a] :
        st \in StatusCodes, a \in SeqsUpTo(texts, n)}
    \cup {[Status |-> st, hasAnswer |-> FALSE, Answer |-> <<>>] : st \in StatusCodes}

ResponsesOver(texts) == ResponsesWithin(texts, MaxAnswers)

\* faulty variant: the status is honoured only when no answer came with it
dnsFailed_OnlyWithoutAnswers(data) == data.Status # 0 /\ Len(data.Answer) = 0
\* `Status !== 0` of checkSpf, checkDmarc and checkMx
dnsFailed(data) == data.Status # 0

\* faulty variant: an empty Answer list is not taken for "no answers"
noAnswers_OnlyAbsent(data) == ~data.hasAnswer
\* `!Answer || Answer.length === 0`
noAnswers(data) == ~data.hasAnswer \/ Len(data.Answer) = 0

EmptyResponses == {r \in ResponsesOver({}) : TRUE}

\* rejections of googleDnsService.get (network failure, non-2xx, bad JSON)
TransportErrors == {"Error: DNS query failed", "Error: Network Error"}

(***************************************************************************)
(* The DKIM validator (src/dkim.ts): validateDkimForSelector and checkDkim *)
(***************************************************************************)
commonDkimSelectors ==
    << "google", "selector1", "selector2", "k1", "k2", "ctct1", "ctct2", "sm",
       "s1", "s2", "sig1", "litesrv", "zendesk1", "zendesk2", "mail", "email",
       "dkim", "default" >>

\* dkimSelectorsForProviders[key]: not defined for a key the object lacks
dkimSelectorsForProviders(key) ==
    CASE key = "google" -> [defined |-> TRUE, items |-> <<"google">>]
      [] key = "microsoft" -> [defined |-> TRUE, items |-> <<"selector1", "selector2">>]
      [] OTHER -> [defined |-> FALSE, items |-> <<>>]

TruncateMaxLength == 50

truncateRecord(record) ==
    IF Len(record) <= TruncateMaxLength THEN record
    ELSE substring(record, 0, TruncateMaxLength) \o "..."

isValidDkimRecord(record) ==
    LET cleanRecord == removeQuotes(record)
        raw == split(cleanRecord, ";")
        parts == [i \in 1..Len(raw) |-> trim(raw[i])]
        hasVersion == \E i \in 1..Len(parts) : startsWith(parts[i], "v=DKIM1")
        hasKey == \E i \in 1..Len(parts) : startsWith(parts[i], "k=")
        hasPublicKey ==
            \E i \in 1..Len(parts) :
                /\ startsWith(parts[i], "p=")
                /\ Len(trim(substringFrom(parts[i], 2))) > 0
    IN  hasVersion /\ hasKey /\ hasPublicKey

\* faulty variant: the filter without toLowerCase
isDkimTagged_CaseSensitive(data) == includes(data, "v=dkim1")
\* the filter of validateDkimForSelector
isDkimTagged(data) == includes(toLowerCase(data), "v=dkim1")

\* the record texts the resolver serves at a DKIM selector name
DkimTexts ==
    { "v=DKIM1; k=rsa; p=KEY1",
      "\"v=DKIM1; k=rsa; p=KEY2\"",
      "v=DKIM1; k=rsa; p=",
      "v=DKIM1; p=KEY1",
      "v=dkim1; k=rsa; p=KEY1",
      "v=spf1 -all",
      "v=DKIM1; k=rsa; n=No DKIM records found",
      "v=DKIM1; k=rsa; t=y; s=email; h=sha256; n=No valid DKIM records found" }

\* isDkimTagged and isValidDkimRecord of each text, evaluated once
dkimTaggedOf == [t \in DkimTexts |-> isDkimTagged(t)]
validDkimRecordOf == [t \in DkimTexts |-> isValidDkimRecord(t)]
taggedDkim(t) == dkimTaggedOf[t]

\* the GET of validateDkimForSelector
\* faulty variant: the selector is looked up right under the domain
dkimQuery_NoDomainKey(domain, selector) ==
    "/resolve?name=" \o selector \o "." \o domain \o "&type=TXT"

dkimQuery(domain, selector) ==
    "/resolve?name=" \o selector \o "._domainkey." \o domain \o "&type=TXT"

\* validateDkimForSelector from the response on (the code after the await)
validateDkimForSelector(selector, data) ==
    LET dkimRecords == data.Answer
        validDkimRecords == SelectSeq(dkimRecords, taggedDkim)
    IN  IF noAnswers(data)
        THEN [isValid |-> "null",
              reason |-> "No DKIM records found for selector " \o selector]
        ELSE IF Len(validDkimRecords) > 1
        THEN [isValid |-> "false",
              reason |-> "Multiple DKIM records found for selector " \o selector]
        ELSE IF Len(validDkimRecords) = 0
        THEN [isValid |-> "false",
              reason |-> "No valid DKIM records found for selector " \o selector]
        ELSE IF ~validDkimRecordOf[validDkimRecords[1]]
        THEN [isValid |-> "false",
              reason |-> "Invalid DKIM record format for selector " \o selector
                         \o " - " \o truncateRecord(validDkimRecords[1])]
        ELSE [isValid |-> "true", reason |-> "All checks passed"]

\* Map.prototype.set on a Map kept as the sequence of its entries in
\* insertion order: a key already present keeps its place
mapSet(m, k, v) ==
    IF \E i \in 1..Len(m) : m[i].key = k
    THEN [i \in 1..Len(m) |-> IF m[i].key = k THEN [key |-> k, value |-> v] ELSE m[i]]
    ELSE Append(m, [key |-> k, value |-> v])

\* Array.from(m.keys())
mapKeys(m) == [i \in 1..Len(m) |-> m[i].key]

DkimResponses == ResponsesOver(DkimTexts)

(***************************************************************************)
(* The SPF validator: countDnsLookups and checkSpf                          *)
(***************************************************************************)
MaxDnsLookups == 10

\* faulty variant: only "+" is taken for a qualifier
stripQualifier_PlusOnly(mechanism) ==
    IF startsWith(mechanism, "+") THEN substringFrom(mechanism, 1) ELSE mechanism

stripQualifier(mechanism) ==
    IF \/ startsWith(mechanism, "+")
       \/ startsWith(mechanism, "-")
       \/ startsWith(mechanism, "?")
       \/ startsWith(mechanism, "~")
    THEN substringFrom(mechanism, 1)
    ELSE mechanism

\* faulty variant: the redirect modifier is not counted
needsLookup_NoRedirect(mech) ==
    \/ startsWith(mech, "include:")
    \/ startsWith(mech, "a:")
    \/ startsWith(mech, "mx:")
    \/ startsWith(mech, "ptr:")
    \/ startsWith(mech, "exists:")
    \/ mech = "a"
    \/ mech = "mx"

needsLookup(mech) ==
    \/ startsWith(mech, "include:")
    \/ startsWith(mech, "a:")
    \/ startsWith(mech, "mx:")
    \/ startsWith(mech, "ptr:")
    \/ startsWith(mech, "exists:")
    \/ startsWith(mech, "redirect=")
    \/ mech = "a"
    \/ mech = "mx"

isNonEmpty(m) == m # ""

countDnsLookups(spfRecord) ==
    LET mechanisms == SelectSeq(split(trim(substringFrom(spfRecord, 6)), " "), isNonEmpty)
    IN  Cardinality({i \in 1..Len(mechanisms) : needsLookup(stripQualifier(mechanisms[i]))})

spfQuery(domain) == "/resolve?name=" \o domain \o "&type=TXT"

\* faulty variant: the filter without the quote clean-up
isSpfRecord_QuotesKept(data) == startsWith(toLowerCase(data), "v=spf1")
\* the filter of checkSpf
isSpfRecord(data) == startsWith(toLowerCase(stripSurroundingQuotes(data)), "v=spf1")

\* checkSpf from the response on
checkSpfResult(data) ==
    LET spfRecords == SelectSeq(data.Answer, isSpfRecord)
    IN  IF dnsFailed(data)
        THEN [isValid |-> "false", reason |-> "DNS query failed or returned an error status"]
        ELSE IF noAnswers(data)
        THEN [isValid |-> "false", reason |-> "No TXT records found"]
        ELSE IF Len(spfRecords) > 1
        THEN [isValid |-> "false", reason |-> "Multiple SPF records found"]
        ELSE IF Len(spfRecords) = 1
        THEN LET spfText == stripSurroundingQuotes(spfRecords[1])
             IN  IF countDnsLookups(spfText) > MaxDnsLookups
                 THEN [isValid |-> "false", reason |-> "Too many DNS lookups (exceeds 10)"]
                 ELSE [isValid |-> "true", reason |-> "Valid SPF record", spf |-> spfText]
        ELSE [isValid |-> "false", reason |-> "No SPF record found"]

\* the TXT texts the resolver serves at the bare domain
SpfTexts ==
    { "v=spf1 include:_spf.google.com ~all",
      "\"v=spf1 ip4:192.168.1.1 -all\"",
      "\"some=other txt record\"",
      "V=SPF1 +a -mx ?include:test.com ~all",
      "v=spf1 a mx include:1 include:2 include:3 include:4 include:5 include:6 include:7 include:8 -all",
      "\"v=spf1 a mx ptr:p exists:e a:1 mx:2 include:3 include:4 include:5 include:6 redirect=r\"",
      "txt v=spf1 a -all" }

SpfResponses == ResponsesOver(SpfTexts)

(***************************************************************************)
(* The DMARC validator: checkDmarc                                         *)
(***************************************************************************)
dmarcQuery(domain) == "/resolve?name=_dmarc." \o domain \o "&type=TXT"

\* faulty variant: only a text that starts with the version tag is counted
isDmarcTagged_AtStart(data) == startsWith(toLowerCase(data), "v=dmarc1")
\* the filter of checkDmarc
isDmarcTagged(data) == includes(toLowerCase(data), "v=dmarc1")

\* checkDmarc from the response on
checkDmarcResult(data) ==
    LET dmarcRecords == SelectSeq(data.Answer, isDmarcTagged)
    IN  IF dnsFailed(data)
        THEN [isValid |-> "false", reason |-> "DNS query failed or returned an error status"]
        ELSE IF noAnswers(data)
        THEN [isValid |-> "false", reason |-> "No TXT records found"]
        ELSE IF Len(dmarcRecords) = 0
        THEN [isValid |-> "false", reason |-> "No valid DMARC record found"]
        ELSE IF Len(dmarcRecords) > 1
        THEN [isValid |-> "false", reason |-> "Multiple DMARC records found"]
        ELSE LET dmarcRecord == removeQuotes(dmarcRecords[1])
                 isDmarcValid ==
                     /\ startsWith(toLowerCase(dmarcRecord), "v=dmarc1")
                     /\ includes(toLowerCase(dmarcRecord), "p=")
                     /\ includes(toLowerCase(dmarcRecord), "rua=")
             IN  IF ~isDmarcValid
                 THEN [isValid |-> "false",
                       reason |-> "Invalid DMARC record format - missing required tags (v=DMARC1, p=, rua=)"]
                 ELSE [isValid |-> "true", reason |-> "Valid DMARC record",
                       dmarc |-> dmarcRecord]

\* the TXT texts the resolver serves at _dmarc.<domain>
DmarcTexts ==
    { "v=DMARC1; p=none; rua=mailto:dmarc@example.com",
      "\"v=DMARC1; p=reject; rua=mailto:d@example.com\"",
      "v=DMARC1; p=none",
      "v=DMARC1; rua=mailto:d@example.com",
      "v=DMARC1; sp=none; rua=mailto:d@example.com",
      "t=1; v=dmarc1; p=none; rua=mailto:d@example.com",
      "v=spf1 -all" }

DmarcResponses == ResponsesOver(DmarcTexts)

(***************************************************************************)
(* The MX validator: checkMx                                               *)
(***************************************************************************)
MaxPreference == 65535

\* the value of the longest prefix of s made of decimal digits
RECURSIVE digitsValue(_, _)
digitsValue(s, acc) ==
    IF Len(s) > 0 /\ isDigit(charAt(s, 1))
    THEN digitsValue(substringFrom(s, 1), 10 * acc + (indexIn(Digits, charAt(s, 1)) - 1))
    ELSE acc

\* parseInt(s, 10): an optional sign, then the leading digits; NaN without one
parseInt(s) ==
    LET t == trimStart(s)
        negative == startsWith(t, "-")
        body == IF startsWith(t, "-") \/ startsWith(t, "+") THEN substringFrom(t, 1) ELSE t
    IN  IF Len(body) > 0 /\ isDigit(charAt(body, 1))
        THEN [isNaN |-> FALSE,
              n |-> IF negative THEN 0 - digitsValue(body, 0) ELSE digitsValue(body, 0)]
        ELSE [isNaN |-> TRUE, n |-> 0]

\* String(n) for an integer
RECURSIVE natToString(_)
natToString(n) ==
    IF n < 10 THEN charAt(Digits, n + 1)
    ELSE natToString(n \div 10) \o charAt(Digits, (n % 10) + 1)

numberToString(v) ==
    IF v.isNaN THEN "NaN"
    ELSE IF v.n < 0 THEN "-" \o natToString(0 - v.n)
    ELSE natToString(v.n)

allDigits(s) == \A i \in 1..Len(s) : isDigit(charAt(s, i))

\* /^\d{1,3}\.\d{1,3}\.\d{1,3}\.\d{1,3}$/
isIpv4Literal(exchange) ==
    LET octets == split(exchange, ".")
    IN  /\ Len(octets) = 4
        /\ \A i \in 1..4 :
              /\ Len(octets[i]) \in 1..3
              /\ allDigits(octets[i])

isLabelChar(c) == isAlnum(c) \/ c = "-"

\* [a-zA-Z0-9]([a-zA-Z0-9-]{0,61}[a-zA-Z0-9])?
isHostLabel(label) ==
    /\ Len(label) \in 1..63
    /\ isAlnum(charAt(label, 1))
    /\ isAlnum(charAt(label, Len(label)))
    /\ \A i \in 1..Len(label) : isLabelChar(charAt(label, i))

\* hostnameRegex: labels joined by dots
isHostname(exchange) ==
    LET labels == split(exchange, ".")
    IN  \A i \in 1..Len(labels) : isHostLabel(labels[i])

mxQuery(domain) == "/resolve?name=" \o domain \o "&type=MX"

\* `const [preference, exchange] = answer.data.split(" ")`: exchange is
\* undefined when the text holds no space
hasExchange(data) == Len(split(data, " ")) >= 2

\* faulty variant: the exchange keeps the case it was served in
parseMxAnswer_CaseKept(data) ==
    LET fields == split(data, " ")
    IN  [preference |-> parseInt(fields[1]),
         exchange |-> stripTrailingDot(fields[2])]

parseMxAnswer(data) ==
    LET fields == split(data, " ")
    IN  [preference |-> parseInt(fields[1]),
         exchange |-> stripTrailingDot(toLowerCase(fields[2]))]

invalidPreference(record) ==
    record.preference.isNaN \/ record.preference.n < 0 \/ record.preference.n > MaxPreference

\* the checks of one record, in the order of the loop body; "" when it passes
mxRecordFailure(record) ==
    IF invalidPreference(record)
    THEN "Invalid preference value: " \o numberToString(record.preference)
         \o ". Must be between 0 and 65535"
    ELSE IF isIpv4Literal(record.exchange)
    THEN "MX exchange cannot be an IP address: " \o record.exchange
    ELSE IF ~isHostname(record.exchange)
    THEN "Invalid hostname format: " \o record.exchange
    ELSE ""

\* the MX texts the resolver serves at the bare domain
MxTexts ==
    { "10 mail.example.com.",
      "20 backup-mail.example.com.",
      "30 MAIL.Example.COM",
      "0 mx0.example.com",
      "65535 mx1.example.com",
      "65536 mx2.example.com",
      "-1 mx3.example.com",
      "abc mx4.example.com",
      "10.5 mx5.example.com",
      "10 192.168.1.1",
      "70000 192.168.1.1",
      "10 -bad-.example.com",
      "mail.example.com." }

\* the steps of checkMx on one answer, worked out once for each text
hasExchangeOf == [t \in MxTexts |-> hasExchange(t)]
mxRecordOf == [t \in {u \in MxTexts : hasExchange(u)} |-> parseMxAnswer(t)]
mxFailureOf == [t \in DOMAIN mxRecordOf |-> mxRecordFailure(mxRecordOf[t])]

\* faulty variant: an empty list is taken for a missing one, as checkSpf and
\* checkDmarc do
answerMissing_OrEmpty(data) == ~data.hasAnswer \/ Len(data.Answer) = 0
\* `!data.Answer`
answerMissing(data) == ~data.hasAnswer

MxTypeError == "TypeError: Cannot read properties of undefined (reading 'toLowerCase')"

\* checkMx from the response on; threw is the TypeError of
\* `exchange.toLowerCase()` on an undefined exchange
checkMxOutcome(data) ==
    IF dnsFailed(data)
    THEN [threw |-> FALSE, error |-> NoError,
          value |-> [isValid |-> "false",
                     reason |-> "DNS query failed or returned an error status"]]
    ELSE IF answerMissing(data)
    THEN [threw |-> FALSE, error |-> NoError,
          value |-> [isValid |-> "false", reason |-> "No MX records found for the domain"]]
    ELSE IF \E i \in 1..Len(data.Answer) : ~hasExchangeOf[data.Answer[i]]
    THEN [threw |-> TRUE, value |-> NoResult, error |-> MxTypeError]
    ELSE LET mxRecords == [i \in 1..Len(data.Answer) |-> mxRecordOf[data.Answer[i]]]
             exchanges == {mxRecords[i].exchange : i \in 1..Len(mxRecords)}
             failing == {i \in 1..Len(mxRecords) : mxFailureOf[data.Answer[i]] # ""}
             first == CHOOSE i \in failing : \A j \in failing : i <= j
         IN  [threw |-> FALSE, error |-> NoError,
              value |->
                IF Len(mxRecords) = 0
                THEN [isValid |-> "false", reason |-> "No valid MX records found"]
                ELSE IF Cardinality(exchanges) # Len(mxRecords)
                THEN [isValid |-> "false", reason |-> "Duplicate MX exchanges found"]
                ELSE IF failing # {}
                THEN [isValid |-> "false", reason |-> mxFailureOf[data.Answer[first]]]
                ELSE [isValid |-> "true", reason |-> "All MX records are valid",
                      mx |-> [i \in 1..Len(mxRecords) |->
                                [preference |-> mxRecords[i].preference.n,
                                 exchange |-> mxRecords[i].exchange]]]]

\* the longest Answer list the resolver delivers to an MX query
MaxMxAnswers == 3

MxResponses == ResponsesWithin(MxTexts, MaxMxAnswers)

(***************************************************************************)
(* The calls.  One validator call at a time is followed from its start to  *)
(* its return or throw.                                                    *)
(***************************************************************************)
VARIABLES
    fn,                   \* the validator called: "dkim", "spf", "dmarc", "mx"; "" before the call
    provider,             \* checkDkim's provider argument
    pc,                   \* "idle", "await" (suspended at a get), "done" (returned), "threw"
    selectorsToCheck,     \* checkDkim: the selector list of the call
    idx,                  \* checkDkim: position of the loop in selectorsToCheck
    foundValidSelectors,  \* checkDkim: the Map, as its entries in insertion order
    queries,              \* the requests issued to googleDnsService.get, in order
    reply,                \* the resolver's last response or rejection, and the query it answers
    result,               \* the value the call returned
    error,                \* the error the call threw
    seen,                 \* history (checkDkim): answerKind of each response, in order
    spfTerms,             \* countDnsLookups on its own: the terms of the record it is given
    lookups,              \* countDnsLookups on its own: the count it returned for spfTerms
    baseLookups,          \* history: the count it returned for the record first drawn
    edits,                \* history: the kinds of edit made to the record since
    zone,                 \* repeated calls: what the resolver answered to each query so far
    calls,                \* repeated calls: the number of calls that have ended
    outcomes              \* history: how the first call with each argument list ended

callVars == <<fn, provider, pc, selectorsToCheck, idx, foundValidSelectors, queries,
              reply, result, error, seen>>

lookupVars == <<spfTerms, lookups, baseLookups, edits>>

replayVars == <<zone, calls, outcomes>>

vars == <<callVars, lookupVars, replayVars>>

Domain == "example.com"

\* the provider arguments a caller may pass (typed or not)
Providers == {Undefined, "google", "microsoft", "invalid-provider", ""}

\* reply: the query answered (its place in queries, 0 before the first reply),
\* the response data delivered, or the error the request was rejected with
NoData == [Status |-> 0, hasAnswer |-> FALSE, Answer |-> <<>>]
NoReply == [for |-> 0, data |-> NoData, rejected |-> NoError]
Delivered(data) == [for |-> Len(queries), data |-> data, rejected |-> NoError]
Rejected(e) == [for |-> Len(queries), data |-> NoData, rejected |-> e]

DkimTypeError == "TypeError: selectorsToCheck is not iterable"

\* no validator has been called
NoCall ==
    /\ fn = ""
    /\ provider = Undefined
    /\ pc = "idle"
    /\ selectorsToCheck = <<>>
    /\ idx = 0
    /\ foundValidSelectors = <<>>
    /\ queries = <<>>
    /\ reply = NoReply
    /\ result = NoResult
    /\ error = NoError
    /\ seen = <<>>

\* countDnsLookups is not being exercised on its own
NoLookups ==
    /\ spfTerms = <<>>
    /\ lookups = 0
    /\ baseLookups = 0
    /\ edits = {}

\* no call has ended and the resolver has answered nothing
NoReplay ==
    /\ zone = {}
    /\ calls = 0
    /\ outcomes = {}

Init == NoCall /\ NoLookups /\ NoReplay

(***************************************************************************)
(* What a DKIM response holds for its selector, read off the answers       *)
(* alone: the tagged variant {NotFound, Found, Ambiguous, Malformed}.      *)
(***************************************************************************)
hasTag(text, tag) ==
    LET segs == split(removeQuotes(text), ";")
    IN  \E i \in 1..Len(segs) : startsWith(trim(segs[i]), tag)

hasNonEmptyTag(text, tag) ==
    LET segs == split(removeQuotes(text), ";")
    IN  \E i \in 1..Len(segs) :
           /\ startsWith(trim(segs[i]), tag)
           /\ trim(segs[i]) # tag

wellFormedDkim(text) ==
    hasTag(text, "v=DKIM1") /\ hasTag(text, "k=") /\ hasNonEmptyTag(text, "p=")

carriesDkimTag == [t \in DkimTexts |-> includes(toLowerCase(t), "v=dkim1")]
wellFormedOf == [t \in DkimTexts |-> wellFormedDkim(t)]

taggedAnswers(data) == {i \in 1..Len(data.Answer) : carriesDkimTag[data.Answer[i]]}

answerKind(data) ==
    IF ~data.hasAnswer \/ taggedAnswers(data) = {} THEN "NotFound"
    ELSE IF Cardinality(taggedAnswers(data)) > 1 THEN "Ambiguous"
    ELSE LET i == CHOOSE j \in taggedAnswers(data) : TRUE
         IN  IF wellFormedOf[data.Answer[i]] THEN "Found" ELSE "Malformed"

(***************************************************************************)
(* checkDkim                                                               *)
(***************************************************************************)
\* `provider ? dkimSelectorsForProviders[provider] : commonDkimSelectors`;
\* iterable is FALSE when the value is undefined
selectorsFor(p) ==
    IF Truthy(p)
    THEN [iterable |-> dkimSelectorsForProviders(p).defined,
          items |-> dkimSelectorsForProviders(p).items]
    ELSE [iterable |-> TRUE, items |-> commonDkimSelectors]

\* the result after the loop
dkimFinalResult(found) ==
    IF Len(found) > 0
    THEN [isValid |-> "true", reason |-> "DKIM records found",
          dkimSelectors |-> mapKeys(found)]
    ELSE [isValid |-> "false", reason |-> "No valid DKIM records found"]

\* faulty variant: only the first "not found" reason is recognised
isImmediateFailure_OneMarker(res) ==
    /\ res.isValid = "false"
    /\ ~includes(res.reason, "No DKIM records found")

\* the `else if` of the loop body: the selector's result ends the check
isImmediateFailure(res) ==
    /\ res.isValid = "false"
    /\ ~includes(res.reason, "No DKIM records found")
    /\ ~includes(res.reason, "No valid DKIM records found")

\* checkDkim up to its first get, the call starting with the Map `found`
CallCheckDkimWith(p, found) ==
    /\ pc = "idle"
    /\ fn' = "dkim"
    /\ provider' = p
    /\ foundValidSelectors' = found
    /\ LET list == selectorsFor(p)
       IN  IF ~list.iterable
           THEN /\ pc' = "threw"
                /\ error' = DkimTypeError
                /\ UNCHANGED <<selectorsToCheck, idx, queries, result>>
           ELSE /\ selectorsToCheck' = list.items
                /\ error' = NoError
                /\ IF Len(list.items) = 0
                   THEN /\ pc' = "done"
                        /\ result' = dkimFinalResult(found)
                        /\ UNCHANGED <<idx, queries>>
                   ELSE /\ pc' = "await"
                        /\ idx' = 1
                        /\ queries' = <<dkimQuery(Domain, list.items[1])>>
                        /\ UNCHANGED result
    /\ UNCHANGED <<reply, seen>>

\* faulty variant: one Map, created once, is shared by all calls
CallCheckDkim_SharedMap(p) == CallCheckDkimWith(p, foundValidSelectors)

\* `const foundValidSelectors = new Map()`: each call starts with its own
CallCheckDkim(p) == CallCheckDkimWith(p, <<>>)

\* the responses the resolver may deliver to the pending DKIM query
dkimRepliesAt(i) == IF i <= ZoneSelectors THEN DkimResponses ELSE EmptyResponses

DkimReply(data) ==
    /\ pc = "await"
    /\ fn = "dkim"
    /\ LET selector == selectorsToCheck[idx]
           res == validateDkimForSelector(selector, data)
           found == IF res.isValid = "true"
                    THEN mapSet(foundValidSelectors, selector, res.reason)
                    ELSE foundValidSelectors
       IN  /\ reply' = Delivered(data)
           /\ seen' = Append(seen, answerKind(data))
           /\ foundValidSelectors' = found
           /\ IF res.isValid # "true" /\ isImmediateFailure(res)
              THEN /\ pc' = "done"
                   /\ result' = [isValid |-> "false", reason |-> res.reason]
                   /\ UNCHANGED <<idx, queries>>
              ELSE IF idx < Len(selectorsToCheck)
              THEN /\ idx' = idx + 1
                   /\ queries' = Append(queries, dkimQuery(Domain, selectorsToCheck[idx + 1]))
                   /\ UNCHANGED <<pc, result>>
              ELSE /\ pc' = "done"
                   /\ result' = dkimFinalResult(found)
                   /\ UNCHANGED <<idx, queries>>
    /\ UNCHANGED <<fn, provider, selectorsToCheck, error>>

(***************************************************************************)
(* checkSpf, checkDmarc, checkMx                                           *)
(***************************************************************************)
CallSingleQuery(f, q) ==
    /\ pc = "idle"
    /\ fn' = f
    /\ pc' = "await"
    /\ queries' = <<q>>
    /\ UNCHANGED <<provider, selectorsToCheck, idx, foundValidSelectors, reply,
                   result, error, seen>>

CallCheckSpf == CallSingleQuery("spf", spfQuery(Domain))

CallCheckDmarc == CallSingleQuery("dmarc", dmarcQuery(Domain))

CallCheckMx == CallSingleQuery("mx", mxQuery(Domain))

Return(data, value) ==
    /\ reply' = Delivered(data)
    /\ pc' = "done"
    /\ result' = value
    /\ UNCHANGED <<fn, provider, selectorsToCheck, idx, foundValidSelectors,
                   queries, error, seen>>

SpfReply(data) ==
    /\ pc = "await"
    /\ fn = "spf"
    /\ Return(data, checkSpfResult(data))

DmarcReply(data) ==
    /\ pc = "await"
    /\ fn = "dmarc"
    /\ Return(data, checkDmarcResult(data))

MxReply(data) ==
    /\ pc = "await"
    /\ fn = "mx"
    /\ LET out == checkMxOutcome(data)
       IN  IF out.threw
           THEN /\ reply' = Delivered(data)
                /\ pc' = "threw"
                /\ error' = out.error
                /\ UNCHANGED <<fn, provider, selectorsToCheck, idx,
                               foundValidSelectors, queries, result, seen>>
           ELSE Return(data, out.value)

\* faulty variant: the rejection is caught and a result is returned
Reject_Swallowed(e) ==
    /\ pc = "await"
    /\ reply' = Rejected(e)
    /\ pc' = "done"
    /\ result' = IF fn = "dkim" THEN dkimFinalResult(foundValidSelectors)
                 ELSE [isValid |-> "false", reason |-> e]
    /\ UNCHANGED <<fn, provider, selectorsToCheck, idx, foundValidSelectors,
                   queries, error, seen>>

\* the pending get rejects: no validator catches it, the call rejects with it
Reject(e) ==
    /\ pc = "await"
    /\ reply' = Rejected(e)
    /\ pc' = "threw"
    /\ error' = e
    /\ UNCHANGED <<fn, provider, selectorsToCheck, idx, foundValidSelectors,
                   queries, result, seen>>

Next ==
    \/ (\E p \in Providers : CallCheckDkim(p)) /\ UNCHANGED <<lookupVars, replayVars>>
    \/ CallCheckSpf /\ UNCHANGED <<lookupVars, replayVars>>
    \/ CallCheckDmarc /\ UNCHANGED <<lookupVars, replayVars>>
    \/ CallCheckMx /\ UNCHANGED <<lookupVars, replayVars>>
    \/ /\ pc = "await" /\ fn = "dkim"
       /\ \E data \in dkimRepliesAt(idx) : DkimReply(data)
       /\ UNCHANGED <<lookupVars, replayVars>>
    \/ /\ pc = "await" /\ fn = "spf"
       /\ \E data \in SpfResponses : SpfReply(data)
       /\ UNCHANGED <<lookupVars, replayVars>>
    \/ /\ pc = "await" /\ fn = "dmarc"
       /\ \E data \in DmarcResponses : DmarcReply(data)
       /\ UNCHANGED <<lookupVars, replayVars>>
    \/ /\ pc = "await" /\ fn = "mx"
       /\ \E data \in MxResponses : MxReply(data)
       /\ UNCHANGED <<lookupVars, replayVars>>
    \/ /\ pc = "await"
       /\ \E e \in TransportErrors : Reject(e)
       /\ UNCHANGED <<lookupVars, replayVars>>

Spec == Init /\ [][Next]_vars

(***************************************************************************)
(* countDnsLookups on its own: a record is drawn as a list of terms, each  *)
(* a mechanism or modifier with or without a qualifier, and is then edited *)
(* by swapping two neighbouring terms or by changing the qualifier of a    *)
(* term; after each edit countDnsLookups is applied to the record.         *)
(***************************************************************************)
MaxSpfTerms == 2

SpfMechanisms ==
    {"a", "mx", "include:_spf.google.com", "redirect=r", "all"}

SpfQualifiers == {"", "+", "-", "?", "~"}

SpfTerms == [qualifier : SpfQualifiers, mech : SpfMechanisms]

RECURSIVE joinTerms(_)
joinTerms(terms) ==
    IF terms = <<>> THEN ""
    ELSE " " \o Head(terms).qualifier \o Head(terms).mech \o joinTerms(Tail(terms))

\* the record text handed to countDnsLookups
spfRecordOf(terms) == "v=spf1" \o joinTerms(terms)

InitLookups ==
    /\ NoCall
    /\ spfTerms \in SeqsUpTo(SpfTerms, MaxSpfTerms)
    /\ lookups = countDnsLookups(spfRecordOf(spfTerms))
    /\ baseLookups = lookups
    /\ edits = {}
    /\ NoReplay

\* the terms at i and i + 1 change places
Reorder(i) ==
    /\ i < Len(spfTerms)
    /\ spfTerms' = [spfTerms EXCEPT ![i] = spfTerms[i + 1], ![i + 1] = spfTerms[i]]
    /\ lookups' = countDnsLookups(spfRecordOf(spfTerms'))
    /\ edits' = edits \cup {"reorder"}
    /\ UNCHANGED <<baseLookups, callVars, replayVars>>

\* the term at i, one that incurs a lookup, gets the qualifier q or, with
\* q = "", loses its qualifier
Requalify(i, q) ==
    /\ needsLookup(spfTerms[i].mech)
    /\ q # spfTerms[i].qualifier
    /\ spfTerms' = [spfTerms EXCEPT ![i].qualifier = q]
    /\ lookups' = countDnsLookups(spfRecordOf(spfTerms'))
    /\ edits' = edits \cup {IF q = "" THEN "unqualify" ELSE "qualify"}
    /\ UNCHANGED <<baseLookups, callVars, replayVars>>

NextLookups ==
    \/ \E i \in 1..Len(spfTerms) : Reorder(i)
    \/ \E i \in 1..Len(spfTerms), q \in SpfQualifiers : Requalify(i, q)

SpecLookups == InitLookups /\ [][NextLookups]_vars

(***************************************************************************)
(* Repeated calls.  The validators are called one after another, a call    *)
(* starting when the one before has returned or thrown, and the resolver   *)
(* gives the same query the same answer every time.                        *)
(***************************************************************************)
MaxCalls == 3

ReplayProviders == {Undefined, "google", "microsoft"}

\* the selectors the zone may hold records for: the provider lists, which
\* are also the first entries of commonDkimSelectors
ReplaySelectors == {"google", "selector1", "selector2"}

Served(data) == [data |-> data, rejected |-> NoError]
Failed(e) == [data |-> NoData, rejected |-> e]
NxDomain == [Status |-> 3, hasAnswer |-> FALSE, Answer |-> <<>>]
OneAnswer(text) == [Status |-> 0, hasAnswer |-> TRUE, Answer |-> <<text>>]

ReplayDkimOutcomes ==
    { Served(OneAnswer("v=DKIM1; k=rsa; p=KEY1")),
      Served([Status |-> 0, hasAnswer |-> TRUE,
              Answer |-> <<"v=DKIM1; k=rsa; p=KEY1", "v=dkim1; k=rsa; p=KEY1">>]),
      Served(NxDomain),
      Failed("Error: Network Error") }

ReplaySpfOutcomes ==
    { Served(OneAnswer("v=spf1 include:_spf.google.com ~all")),
      Served(NxDomain),
      Failed("Error: Network Error") }

ReplayDmarcOutcomes ==
    { Served(OneAnswer("v=DMARC1; p=none; rua=mailto:dmarc@example.com")),
      Served(OneAnswer("v=DMARC1; p=none")),
      Failed("Error: Network Error") }

ReplayMxOutcomes ==
    { Served(OneAnswer("10 mail.example.com.")),
      Served(OneAnswer("mail.example.com.")),
      Served(NxDomain) }

\* the query the call is suspended at
pendingQuery == queries[Len(queries)]

\* what the resolver may answer to the pending query
replayOutcomes ==
    IF pc # "await" THEN {}
    ELSE IF fn = "dkim"
    THEN IF selectorsToCheck[idx] \in ReplaySelectors
         THEN ReplayDkimOutcomes
         ELSE {Served(NxDomain)}
    ELSE IF fn = "spf" THEN ReplaySpfOutcomes
    ELSE IF fn = "dmarc" THEN ReplayDmarcOutcomes
    ELSE ReplayMxOutcomes

\* the resolver answers the pending query with o: the answer it gave to the
\* same query before, if it was asked before
Resolve(o) ==
    IF \E z \in zone : z.query = pendingQuery
    THEN /\ [query |-> pendingQuery, outcome |-> o] \in zone
         /\ UNCHANGED zone
    ELSE zone' = zone \cup {[query |-> pendingQuery, outcome |-> o]}

\* the argument list of the current call
callKey == IF fn = "dkim" THEN "checkDkim:" \o provider ELSE fn

\* how the current call ended
callOutcome == [pc |-> pc, result |-> result, error |-> error]

\* the caller has the result or the error of the call; the next call may
\* start.  The locals of the ended call are left as they are: nothing reads
\* them unless a later call fails to make its own.
Settle ==
    /\ pc \in {"done", "threw"}
    /\ pc' = "idle"
    /\ calls' = calls + 1
    /\ outcomes' = IF \E o \in outcomes : o.call = callKey
                   THEN outcomes
                   ELSE outcomes \cup {[call |-> callKey, outcome |-> callOutcome]}
    /\ queries' = <<>>
    /\ reply' = NoReply
    /\ result' = NoResult
    /\ error' = NoError
    /\ seen' = <<>>
    /\ UNCHANGED <<fn, provider, selectorsToCheck, idx, foundValidSelectors, zone, lookupVars>>

NextTwice ==
    \/ /\ calls < MaxCalls
       /\ \E p \in ReplayProviders : CallCheckDkim(p)
       /\ UNCHANGED <<lookupVars, replayVars>>
    \/ /\ calls < MaxCalls
       /\ CallCheckSpf
       /\ UNCHANGED <<lookupVars, replayVars>>
    \/ /\ calls < MaxCalls
       /\ CallCheckDmarc
       /\ UNCHANGED <<lookupVars, replayVars>>
    \/ /\ calls < MaxCalls
       /\ CallCheckMx
       /\ UNCHANGED <<lookupVars, replayVars>>
    \/ \E o \in replayOutcomes :
          /\ o.rejected = NoError
          /\ Resolve(o)
          /\ DkimReply(o.data)
          /\ UNCHANGED <<lookupVars, calls, outcomes>>
    \/ \E o \in replayOutcomes :
          /\ o.rejected = NoError
          /\ Resolve(o)
          /\ SpfReply(o.data)
          /\ UNCHANGED <<lookupVars, calls, outcomes>>
    \/ \E o \in replayOutcomes :
          /\ o.rejected = NoError
          /\ Resolve(o)
          /\ DmarcReply(o.data)
          /\ UNCHANGED <<lookupVars, calls, outcomes>>
    \/ \E o \in replayOutcomes :
          /\ o.rejected = NoError
          /\ Resolve(o)
          /\ MxReply(o.data)
          /\ UNCHANGED <<lookupVars, calls, outcomes>>
    \/ \E o \in replayOutcomes :
          /\ o.rejected # NoError
          /\ Resolve(o)
          /\ Reject(o.rejected)
          /\ UNCHANGED <<lookupVars, calls, outcomes>>
    \/ Settle

SpecTwice == Init /\ [][NextTwice]_vars

(***************************************************************************)
(* Properties.                                                             *)
(***************************************************************************)
\* a response (not a rejection) has been delivered
replied == reply.for > 0 /\ reply.rejected = NoError

\* checkDkim: the selector the last reply answers
repliedSelector == selectorsToCheck[reply.for]

failure(reason) == [isValid |-> "false", reason |-> reason]

\* the selectors, in list order, whose response held one well-formed DKIM record
foundInOrder ==
    LET at == SelectSeq([i \in 1..Len(seen) |-> i], LAMBDA i : seen[i] = "Found")
    IN  [k \in 1..Len(at) |-> selectorsToCheck[at[k]]]

\* C1: the response of a selector that carries more than one answer containing
\* "v=dkim1" ends checkDkim at once: it returns isValid false with reason
\* "Multiple DKIM records found for selector <that selector>", whatever was found
\* valid before; no earlier selector was ambiguous and no later one is queried.
C1_AmbiguousSelectorFails ==
    (fn = "dkim" /\ replied /\ reply.data.hasAnswer
        /\ Cardinality(taggedAnswers(reply.data)) > 1)
    => /\ pc = "done"
       /\ result = failure("Multiple DKIM records found for selector " \o repliedSelector)
       /\ Len(queries) = reply.for
       /\ \A i \in 1..Len(queries) : queries[i] = dkimQuery(Domain, selectorsToCheck[i])
       /\ \A i \in 1..(reply.for - 1) : seen[i] # "Ambiguous"

C1_Witness ==
    /\ fn = "dkim" /\ replied /\ pc = "done"
    /\ Cardinality(taggedAnswers(reply.data)) > 1
    /\ reply.for = 3
    /\ Len(foundValidSelectors) = 2
    /\ Len(selectorsToCheck) > 3

\* C2: the response of a selector with exactly one DKIM-tagged answer that is
\* malformed ends checkDkim at once with a reason that starts "Invalid DKIM
\* record format for selector <selector>"; the scan never continues past it.
C2_MalformedSelectorFails ==
    (fn = "dkim" /\ replied /\ answerKind(reply.data) = "Malformed")
    => /\ pc = "done"
       /\ result.isValid = "false"
       /\ startsWith(result.reason,
                     "Invalid DKIM record format for selector " \o repliedSelector)
       /\ Len(queries) = reply.for

\* C3: a checkDkim call that returns with no selector ambiguous or malformed
\* has scanned the whole list and returns success with exactly the selectors
\* found valid, in list order, or "No valid DKIM records found" when there is
\* none; isValid of a returned result is never null.
C3_ResultListsFoundSelectors ==
    (fn = "dkim" /\ pc = "done")
    => /\ result.isValid \in {"true", "false"}
       /\ (\A i \in 1..Len(seen) : seen[i] \notin {"Ambiguous", "Malformed"})
          => /\ Len(seen) = Len(selectorsToCheck)
             /\ result = IF Len(foundInOrder) > 0
                         THEN [isValid |-> "true", reason |-> "DKIM records found",
                               dkimSelectors |-> foundInOrder]
                         ELSE failure("No valid DKIM records found")

C3_Witness ==
    /\ fn = "dkim" /\ pc = "done" /\ provider = Undefined
    /\ seen[1] = "Found" /\ seen[2] = "NotFound" /\ seen[3] = "Found"
    /\ reply.for = Len(commonDkimSelectors)
    /\ result.isValid = "true"
    /\ result.dkimSelectors = <<"google", "selector2">>

\* C4: checkDkim called with a provider that is given and is neither "google"
\* nor "microsoft" throws without issuing a query or returning a result.
C4_UnknownProviderThrows ==
    (fn = "dkim" /\ provider \notin {Undefined, "google", "microsoft"})
    => /\ pc = "threw"
       /\ queries = <<>>
       /\ result = NoResult

\* C5: when the resolver rejects a request, the validator that issued it throws
\* that same error: nothing is returned (no partial selector list either), the
\* rejected query was the last one issued and no query was issued twice.
C5_RejectionPropagates ==
    /\ (reply.rejected # NoError)
       => /\ pc = "threw"
          /\ error = reply.rejected
          /\ result = NoResult
          /\ Len(queries) = reply.for
          /\ \A i, j \in 1..Len(queries) : queries[i] = queries[j] => i = j
    /\ (pc = "await") => (result = NoResult /\ error = NoError)

C5_Witness ==
    /\ fn = "dkim" /\ pc = "threw"
    /\ reply.rejected \in TransportErrors
    /\ reply.for = 3
    /\ Len(foundValidSelectors) = 2

\* C6: a response delivered without transport error never makes a validator
\* throw: the call goes on or returns a result whose isValid is a boolean.
C6_DeliveredResponseNeverThrows ==
    replied
    => /\ pc # "threw"
       /\ pc = "done" => result.isValid \in {"true", "false"}

\* C7: checkSpf, checkDmarc and checkMx answer a response whose status is not 0
\* with "DNS query failed or returned an error status", whatever its Answer.
C7_NonzeroStatusFails ==
    (fn \in {"spf", "dmarc", "mx"} /\ replied /\ reply.data.Status # 0)
    => /\ pc = "done"
       /\ result = failure("DNS query failed or returned an error status")

C7_Witness ==
    /\ fn = "spf" /\ replied /\ pc = "done"
    /\ reply.data.Status = 3
    /\ reply.data.Answer = <<"v=spf1 include:_spf.google.com ~all">>

\* C8: in checkDkim a response with a nonzero status never makes its selector
\* found valid and never produces the ambiguous or malformed failure.
C8_NonzeroStatusSkipsSelector ==
    (fn = "dkim" /\ replied /\ reply.data.Status # 0)
    => /\ \A i \in 1..Len(foundValidSelectors) :
             foundValidSelectors[i].key # repliedSelector
       /\ ~(/\ pc = "done"
            /\ \/ startsWith(result.reason, "Multiple DKIM records found")
               \/ startsWith(result.reason, "Invalid DKIM record format"))

\* C9: with status 0 and no answers (Answer absent or empty) checkSpf and
\* checkDmarc return isValid false, "No TXT records found" and nothing else.
C9_NoTxtRecords ==
    (fn \in {"spf", "dmarc"} /\ replied /\ reply.data.Status = 0
        /\ (~reply.data.hasAnswer \/ reply.data.Answer = <<>>))
    => /\ pc = "done"
       /\ result = failure("No TXT records found")

C9_Witness ==
    /\ fn = "dmarc" /\ replied /\ pc = "done"
    /\ reply.data.Status = 0
    /\ reply.data.hasAnswer
    /\ reply.data.Answer = <<>>

\* the answers that start with "v=spf1" once one double quote at each end is
\* stripped, whatever the case of the letters
startsAsSpf == [t \in SpfTexts |-> startsWith(toLowerCase(stripSurroundingQuotes(t)), "v=spf1")]
spfAnswers(data) == {i \in 1..Len(data.Answer) : startsAsSpf[data.Answer[i]]}

\* C10 as stated: with status 0, two or more answers starting with "v=spf1"
\* give "Multiple SPF records found", and no such answer gives "No SPF record
\* found".
C10_AsStated ==
    (fn = "spf" /\ replied /\ reply.data.Status = 0)
    => /\ Cardinality(spfAnswers(reply.data)) >= 2
          => (pc = "done" /\ result = failure("Multiple SPF records found"))
       /\ Cardinality(spfAnswers(reply.data)) = 0
          => (pc = "done" /\ result = failure("No SPF record found"))

\* C10 (amended): with status 0, two or more answers starting with "v=spf1"
\* give "Multiple SPF records found" whatever their lookup counts; a non-empty
\* answer list with no such answer gives "No SPF record found".
C10_SpfMultiplicity ==
    (fn = "spf" /\ replied /\ reply.data.Status = 0)
    => /\ Cardinality(spfAnswers(reply.data)) >= 2
          => (pc = "done" /\ result = failure("Multiple SPF records found"))
       /\ (reply.data.Answer # <<>> /\ Cardinality(spfAnswers(reply.data)) = 0)
          => (pc = "done" /\ result = failure("No SPF record found"))

C10_Witness ==
    /\ fn = "spf" /\ replied /\ pc = "done"
    /\ reply.data.Status = 0
    /\ Len(reply.data.Answer) = 2
    /\ countDnsLookups(stripSurroundingQuotes(reply.data.Answer[1])) > MaxDnsLookups
    /\ Cardinality(spfAnswers(reply.data)) = 2
    /\ result.reason = "Multiple SPF records found"

\* the lookup count of an SPF record as the specification words it: the
\* space-separated tokens after the "v=spf1" prefix that, once one leading
\* qualifier character is removed, are "a" or "mx" or begin with one of the
\* lookup prefixes
LookupPrefixes == {"include:", "a:", "mx:", "ptr:", "exists:", "redirect="}
Qualifiers == {"+", "-", "?", "~"}
incursLookup(token) ==
    LET core == IF Len(token) > 0 /\ SubSeq(token, 1, 1) \in Qualifiers
                THEN SubSeq(token, 2, Len(token))
                ELSE token
    IN  \/ core \in {"a", "mx"}
        \/ \E p \in LookupPrefixes :
              Len(core) >= Len(p) /\ SubSeq(core, 1, Len(p)) = p
lookupCountOf ==
    [t \in SpfTexts |->
        LET tokens == split(SubSeq(stripSurroundingQuotes(t), 7, Len(stripSurroundingQuotes(t))), " ")
        IN  Cardinality({i \in 1..Len(tokens) : tokens[i] # "" /\ incursLookup(tokens[i])})]
theSpfAnswer(data) == data.Answer[CHOOSE i \in spfAnswers(data) : TRUE]

\* C11: with status 0 and exactly one answer starting with "v=spf1", checkSpf
\* returns the valid result carrying the record without its surrounding
\* quotes when the record's lookup count is at most 10, and fails with "Too
\* many DNS lookups (exceeds 10)" when the count is 11 or more.
C11_LookupLimit ==
    (fn = "spf" /\ replied /\ reply.data.Status = 0
        /\ Cardinality(spfAnswers(reply.data)) = 1)
    => /\ pc = "done"
       /\ result =
            IF lookupCountOf[theSpfAnswer(reply.data)] <= 10
            THEN [isValid |-> "true", reason |-> "Valid SPF record",
                  spf |-> stripSurroundingQuotes(theSpfAnswer(reply.data))]
            ELSE failure("Too many DNS lookups (exceeds 10)")

\* a quoted record of exactly 11 lookups, served next to a non-SPF text, is
\* rejected
C11_Witness ==
    /\ fn = "spf" /\ replied /\ pc = "done"
    /\ reply.data.Status = 0
    /\ Len(reply.data.Answer) = 2
    /\ Cardinality(spfAnswers(reply.data)) = 1
    /\ lookupCountOf[theSpfAnswer(reply.data)] = 11
    /\ result = failure("Too many DNS lookups (exceeds 10)")

\* a record of exactly 10 lookups is accepted
C11_WitnessAtLimit ==
    /\ fn = "spf" /\ replied /\ pc = "done"
    /\ reply.data.Status = 0
    /\ Cardinality(spfAnswers(reply.data)) = 1
    /\ lookupCountOf[theSpfAnswer(reply.data)] = 10
    /\ result.isValid = "true"

\* C12: the count countDnsLookups returns for a record does not change when
\* the terms after "v=spf1" are reordered, nor when a term that incurs a
\* lookup gets, changes or loses its qualifier.
C12_CountInvariantUnderEdits == lookups = baseLookups

\* a record of two lookups has been reordered, qualified and unqualified
C12_Witness ==
    /\ edits = {"reorder", "qualify", "unqualify"}
    /\ Len(spfTerms) = 2
    /\ spfTerms[1].qualifier = "~"
    /\ spfTerms[2].qualifier = ""
    /\ lookups = 2

\* the answers that contain "v=dmarc1", whatever the case of the letters
carriesDmarcTag == [t \in DmarcTexts |-> includes(toLowerCase(t), "v=dmarc1")]
dmarcAnswers(data) == {i \in 1..Len(data.Answer) : carriesDmarcTag[data.Answer[i]]}
theDmarcAnswer(data) == data.Answer[CHOOSE i \in dmarcAnswers(data) : TRUE]

\* the record, quotes removed, has a tag of the given name among its
\* semicolon-separated tags
hasDmarcTag(text, tag) ==
    LET segs == split(toLowerCase(removeQuotes(text)), ";")
    IN  \E i \in 1..Len(segs) : startsWith(trim(segs[i]), tag)
hasPolicyTag == [t \in DmarcTexts |-> hasDmarcTag(t, "p=")]
hasReportTag == [t \in DmarcTexts |-> hasDmarcTag(t, "rua=")]
startsAsDmarc == [t \in DmarcTexts |-> startsWith(toLowerCase(removeQuotes(t)), "v=dmarc1")]

InvalidDmarcFormat ==
    failure("Invalid DMARC record format - missing required tags (v=DMARC1, p=, rua=)")

\* C13: with status 0 and at least one answer, no answer containing
\* "v=dmarc1" gives "No valid DMARC record found" and more than one gives
\* "Multiple DMARC records found", well-formed or not; the tags are validated
\* only when exactly one answer contains it.
C13_DmarcMultiplicity ==
    (fn = "dmarc" /\ replied /\ reply.data.Status = 0 /\ reply.data.Answer # <<>>)
    => /\ pc = "done"
       /\ Cardinality(dmarcAnswers(reply.data)) = 0
          => result = failure("No valid DMARC record found")
       /\ Cardinality(dmarcAnswers(reply.data)) > 1
          => result = failure("Multiple DMARC records found")
       /\ Cardinality(dmarcAnswers(reply.data)) # 1
          => (result.isValid = "false" /\ result # InvalidDmarcFormat)

\* two DMARC answers, the first not starting with the version tag and the
\* second lacking its rua= tag, are reported as multiple
C13_Witness ==
    /\ fn = "dmarc" /\ replied /\ pc = "done"
    /\ reply.data.Status = 0
    /\ Len(reply.data.Answer) = 2
    /\ Cardinality(dmarcAnswers(reply.data)) = 2
    /\ ~startsAsDmarc[reply.data.Answer[1]]
    /\ ~hasReportTag[reply.data.Answer[2]]
    /\ result = failure("Multiple DMARC records found")

\* C14: with status 0 and exactly one answer containing "v=dmarc1", the valid
\* result, carrying the record with its quotes removed, is returned only if
\* the record starts with "v=dmarc1" and has both a p= tag and a rua= tag; a
\* record missing the p= tag or the rua= tag is rejected with "Invalid DMARC
\* record format - missing required tags (v=DMARC1, p=, rua=)".
C14_OneRecordNeedsTags ==
    (fn = "dmarc" /\ replied /\ reply.data.Status = 0
        /\ Cardinality(dmarcAnswers(reply.data)) = 1)
    => LET text == theDmarcAnswer(reply.data)
       IN  /\ pc = "done"
           /\ result.isValid = "true"
              => /\ result = [isValid |-> "true", reason |-> "Valid DMARC record",
                              dmarc |-> removeQuotes(text)]
                 /\ startsAsDmarc[text] /\ hasPolicyTag[text] /\ hasReportTag[text]
           /\ (~hasPolicyTag[text] \/ ~hasReportTag[text])
              => result = InvalidDmarcFormat

(***************************************************************************)
(* MX answers as the specification reads them: a preference field and an   *)
(* exchange field separated by a space.                                    *)
(***************************************************************************)
mxFields == [t \in MxTexts |-> split(t, " ")]
\* the answers that hold both fields
isMxRecord == [t \in MxTexts |-> Len(mxFields[t]) >= 2]
MxRecordTexts == {t \in MxTexts : isMxRecord[t]}
\* the exchange in lower case, one trailing dot removed
normalizedExchange ==
    [t \in MxRecordTexts |->
        LET lower == toLowerCase(mxFields[t][2])
        IN  IF Len(lower) > 0 /\ SubSeq(lower, Len(lower), Len(lower)) = "."
            THEN SubSeq(lower, 1, Len(lower) - 1)
            ELSE lower]
\* the preference field is a decimal integer, with or without a sign
isIntegerField(f) ==
    LET body == IF Len(f) > 0 /\ SubSeq(f, 1, 1) \in {"-", "+"} THEN SubSeq(f, 2, Len(f)) ELSE f
    IN  Len(body) > 0 /\ \A i \in 1..Len(body) : SubSeq(body, i, i) \in DigitChars
integerOf(f) ==
    IF SubSeq(f, 1, 1) = "-" THEN 0 - digitsValue(SubSeq(f, 2, Len(f)), 0)
    ELSE IF SubSeq(f, 1, 1) = "+" THEN digitsValue(SubSeq(f, 2, Len(f)), 0)
    ELSE digitsValue(f, 0)
\* the preference field is an integer in [0, 65535]
preferenceInRange ==
    [t \in MxRecordTexts |->
        isIntegerField(mxFields[t][1]) /\ integerOf(mxFields[t][1]) \in 0..65535]
\* the leading integer of the preference field is missing or out of range
leadingIntegerOutOfRange ==
    [t \in MxRecordTexts |->
        LET v == parseInt(mxFields[t][1]) IN v.isNaN \/ v.n \notin 0..65535]
exchangeIsIp == [t \in MxRecordTexts |-> isIpv4Literal(normalizedExchange[t])]
exchangeIsHostname == [t \in MxRecordTexts |-> isHostname(normalizedExchange[t])]

recordTexts(data) == {i \in 1..Len(data.Answer) : isMxRecord[data.Answer[i]]}
hasDuplicateExchange(data) ==
    \E i, j \in recordTexts(data) :
        i < j /\ normalizedExchange[data.Answer[i]] = normalizedExchange[data.Answer[j]]

mxAnswered == fn = "mx" /\ replied /\ reply.data.Status = 0 /\ reply.data.hasAnswer

\* C15: an MX answer list holding two records with the same normalized
\* exchange gives "Duplicate MX exchanges found", whatever the preferences and
\* whatever defect any entry has.
C15_DuplicatesReportedFirst ==
    (mxAnswered /\ hasDuplicateExchange(reply.data))
    => (pc = "done" /\ result = failure("Duplicate MX exchanges found"))

\* the kind of the first check a record fails, in the order preference
\* range, IPv4 literal, hostname format; "none" when it passes all three
defectKind ==
    [t \in MxRecordTexts |->
        IF leadingIntegerOutOfRange[t] THEN "preference"
        ELSE IF exchangeIsIp[t] THEN "ip"
        ELSE IF ~exchangeIsHostname[t] THEN "hostname"
        ELSE "none"]
\* an answer that is no record, or a record that fails a check
isDefective(t) == ~isMxRecord[t] \/ defectKind[t] # "none"
defective(data) == {i \in 1..Len(data.Answer) : isDefective(data.Answer[i])}
firstDefective(data) == CHOOSE i \in defective(data) : \A j \in defective(data) : i <= j
reportsDefect(reason, t) ==
    CASE defectKind[t] = "preference" -> startsWith(reason, "Invalid preference value: ")
      [] defectKind[t] = "ip" ->
            reason = "MX exchange cannot be an IP address: " \o normalizedExchange[t]
      [] defectKind[t] = "hostname" ->
            reason = "Invalid hostname format: " \o normalizedExchange[t]

\* C16: without duplicate exchanges, checkMx reports the failure of the first
\* record, in answer order, that fails a check, and the first check that
\* record fails in the order preference range, IPv4 literal, hostname format.
C16_FirstFailureReported ==
    (mxAnswered /\ ~hasDuplicateExchange(reply.data) /\ defective(reply.data) # {}
        /\ isMxRecord[reply.data.Answer[firstDefective(reply.data)]])
    => /\ pc = "done"
       /\ result.isValid = "false"
       /\ reportsDefect(result.reason, reply.data.Answer[firstDefective(reply.data)])

\* C17: a record whose exchange is a proper hostname is accepted exactly
\* when its preference field is an integer in [0, 65535]; any other
\* preference field is rejected with "Invalid preference value: <value>. Must
\* be between 0 and 65535".
C17_PreferenceAccepted ==
    (mxAnswered /\ Len(reply.data.Answer) = 1 /\ recordTexts(reply.data) = {1}
        /\ ~exchangeIsIp[reply.data.Answer[1]] /\ exchangeIsHostname[reply.data.Answer[1]])
    => /\ pc = "done"
       /\ IF preferenceInRange[reply.data.Answer[1]]
          THEN result.isValid = "true"
          ELSE /\ result.isValid = "false"
               /\ startsWith(result.reason, "Invalid preference value: ")
               /\ includes(result.reason, ". Must be between 0 and 65535")

\* C18: the success result is {isValid: true, reason: "All MX records are
\* valid", mx}, mx holding one entry for each answer, in answer order, with
\* the integer preference and the exchange in lower case without its
\* trailing dot; a failure result holds no mx list.
C18_SuccessListsRecords ==
    (mxAnswered /\ pc = "done")
    => IF result.isValid = "true"
       THEN /\ DOMAIN result = {"isValid", "reason", "mx"}
            /\ result.reason = "All MX records are valid"
            /\ Len(result.mx) = Len(reply.data.Answer)
            /\ \A i \in 1..Len(result.mx) :
                  /\ isMxRecord[reply.data.Answer[i]]
                  /\ result.mx[i].exchange = normalizedExchange[reply.data.Answer[i]]
                  /\ result.mx[i].preference \in 0..65535
                  /\ preferenceInRange[reply.data.Answer[i]]
                     => result.mx[i].preference
                          = integerOf(mxFields[reply.data.Answer[i]][1])
       ELSE DOMAIN result = {"isValid", "reason"}

\* three records pass, one served in upper case and one with a trailing dot
C18_Witness ==
    /\ mxAnswered /\ pc = "done"
    /\ result.isValid = "true"
    /\ Len(result.mx) = 3
    /\ reply.data.Answer[1] = "30 MAIL.Example.COM"
    /\ reply.data.Answer[2] = "20 backup-mail.example.com."
    /\ result.mx[1] = [preference |-> 30, exchange |-> "mail.example.com"]
    /\ result.mx[2] = [preference |-> 20, exchange |-> "backup-mail.example.com"]

\* C19: with status 0, a response without an Answer list gives "No MX
\* records found for the domain" and one with an empty list gives "No valid
\* MX records found".
C19_MissingOrEmptyAnswer ==
    (fn = "mx" /\ replied /\ reply.data.Status = 0)
    => /\ ~reply.data.hasAnswer
          => (pc = "done" /\ result = failure("No MX records found for the domain"))
       /\ (reply.data.hasAnswer /\ reply.data.Answer = <<>>)
          => (pc = "done" /\ result = failure("No valid MX records found"))

C19_Witness ==
    /\ fn = "mx" /\ replied /\ pc = "done"
    /\ reply.data.Status = 0
    /\ reply.data.hasAnswer
    /\ reply.data.Answer = <<>>
    /\ result.reason = "No valid MX records found"

\* the current call has ended and a call with the same arguments ended before
repeatedCallEnded ==
    /\ pc \in {"done", "threw"}
    /\ \E o \in outcomes : o.call = callKey

\* C20: a validator called again with the same arguments, the resolver
\* answering each query as before, ends as the first such call ended,
\* whatever calls were made in between.
C20_RepeatedCallSameOutcome ==
    repeatedCallEnded => [call |-> callKey, outcome |-> callOutcome] \in outcomes

\* checkDkim("example.com", "google") finds its selector again after a call
\* with other arguments has found other selectors
C20_Witness ==
    /\ repeatedCallEnded
    /\ calls = 2
    /\ Cardinality(outcomes) = 2
    /\ \A o \in outcomes : o.outcome.pc = "done" /\ o.outcome.result.isValid = "true"
    /\ fn = "dkim" /\ provider = "google"
    /\ result = [isValid |-> "true", reason |-> "DKIM records found",
                 dkimSelectors |-> <<"google">>]

\* a lookup of the given type at the given name
lookupOf(name, type) == "/resolve?name=" \o name \o "&type=" \o type
\* the TXT lookup at a selector's DKIM name
selectorLookup(selector) == lookupOf(selector \o "._domainkey." \o Domain, "TXT")

\* the call has got past its argument check and has a selector list
dkimScanning == fn = "dkim" /\ pc # "idle" /\ ~(pc = "threw" /\ queries = <<>>)

\* no response so far was ambiguous or malformed, and no get was rejected
undisturbed ==
    /\ \A i \in 1..Len(seen) : seen[i] \notin {"Ambiguous", "Malformed"}
    /\ reply.rejected = NoError

\* C21: checkDkim queries the selectors one at a time in list order: the i-th
\* query is the TXT lookup of the i-th selector's DKIM name, it is issued
\* only when the responses to all earlier ones have come, and no selector is
\* queried twice.  The list is "google" for provider google, "selector1",
\* "selector2" for microsoft and the 18 common selectors from "google" on
\* without a provider; a call that returns without an ambiguous or malformed
\* selector and without a transport error has issued one query for each
\* selector of the list.  checkSpf, checkDmarc and checkMx issue one query.
C21_OneQueryAtATime ==
    /\ dkimScanning
        => /\ Len(queries) <= Len(selectorsToCheck)
           /\ \A i \in 1..Len(queries) : queries[i] = selectorLookup(selectorsToCheck[i])
           /\ \A i, j \in 1..Len(queries) : i # j => queries[i] # queries[j]
           /\ Len(queries) = Len(seen) + (IF pc = "await" \/ reply.rejected # NoError THEN 1 ELSE 0)
           /\ provider = "google" => selectorsToCheck = <<"google">>
           /\ provider = "microsoft" => selectorsToCheck = <<"selector1", "selector2">>
           /\ provider = Undefined
                => (Len(selectorsToCheck) = 18 /\ selectorsToCheck[1] = "google")
           /\ (pc = "done" /\ undisturbed) => Len(queries) = Len(selectorsToCheck)
    /\ (fn \in {"spf", "dmarc", "mx"} /\ pc # "idle")
        => /\ Len(queries) = 1
           /\ fn = "spf" => queries[1] = lookupOf(Domain, "TXT")
           /\ fn = "dmarc" => queries[1] = lookupOf("_dmarc." \o Domain, "TXT")
           /\ fn = "mx" => queries[1] = lookupOf(Domain, "MX")

\* checkDkim without a provider has returned after 18 queries, two of its
\* selectors found valid
C21_Witness ==
    /\ fn = "dkim" /\ provider = Undefined /\ pc = "done"
    /\ undisturbed
    /\ Len(queries) = 18
    /\ Len(seen) = 18
    /\ result.isValid = "true"
    /\ Len(result.dkimSelectors) = 2

=============================================================================
